---- MODULE Spec2Model ----
(***************************************************************************)
(* XEP-0333 chat markers of converse.js: the marker store of one           *)
(* conversation and the functions of the markers plugin that read and      *)
(* change it (addChatMarker, the sendMarkerFor... functions and the event  *)
(* handlers).  Every exported function is synchronous, so each call is one *)
(* atomic action.                                                          *)
(***************************************************************************)
EXTENDS Integers, Sequences, FiniteSets, TLC

\* ------------------------------------------------------------------------
\* Values

\* JavaScript's undefined: an absent attribute, a missing argument, a call
\* that returns nothing.
NoVal == "undefined"

\* _converse.bare_jid, the local user's bare JID.
bare_jid == "me"

\* _converse.CHATROOMS_TYPE and the type of a one-to-one chat box.
CHATROOMS_TYPE == "chatroom"

PRIVATE_CHAT_TYPE == "chatbox"

\* The JID of the room, when the conversation is a room.
MucJid == "room"

\* The JID of the contact, when the conversation is one-to-one.
ContactJid == "bob"

\* Strophe.getBareJidFromJid: everything before the first "/".
getBareJidFromJid(jid) ==
    CASE jid = "me/desk" -> "me"
      [] jid = "bob/x"   -> "bob"
      [] jid = "room/al" -> "room"
      [] jid = "room/me" -> "room"
      [] OTHER           -> jid

\* MARKER_TYPES of ./constants.js: the rank of each acknowledgment level.
MARKER_TYPES == [received |-> 0, displayed |-> 1, acknowledged |-> 2]

\* A level name outside MARKER_TYPES, as a caller may pass one.
InvalidType == "bogus"

\* The ceiling api.settings.get('muc_chat_markers_limit') of this run.
muc_chat_markers_limit == 2

\* Occupant counts a room is observed with: below, at and above the ceiling.
OccupantCounts == (muc_chat_markers_limit - 1)..(muc_chat_markers_limit + 1)

\* chat.occupants.length as a call may find it; a chat box has no occupants.
Occupants(c) == IF c.type = CHATROOMS_TYPE THEN OccupantCounts ELSE {0}

\* The values of api.settings.get('send_chat_markers') a call may find: every
\* level enabled (the default), or only 'received'.
SendSettings == {{"received", "displayed", "acknowledged"}, {"received"}}

\* Milliseconds in a second, as Date.prototype.setMilliseconds carries them.
MsPerSecond == 1000

\* ------------------------------------------------------------------------
\* Messages of the conversation

\* message.get(`stanza_id ${jid}`)
StanzaId(message, jid) ==
    IF jid \in DOMAIN message.stanza_id THEN message.stanza_id[jid] ELSE NoVal

Message(msgid, from, type, stanza_id, is_markable, time, body, is_new) ==
    [msgid |-> msgid, from |-> from, type |-> type, stanza_id |-> stanza_id,
     is_markable |-> is_markable, marker |-> NoVal, time |-> time,
     body |-> body, is_new |-> is_new, field_name |-> <<>>]

\* The message argument of a call that is given no message (!msg).
NoMessage == [undefined |-> TRUE]

IsUndefined(msg) == "undefined" \in DOMAIN msg

\* A room with two messages of an occupant, oldest first: both markable, the
\* second not yet stamped with the room's stable id and without a body.
RoomUnstamped ==
    << Message("m1", "room/al", "groupchat", (MucJid :> "s1"), TRUE, 1100, "hi", TRUE),
       Message("m2", "room/al", "groupchat", (MucJid :> NoVal), TRUE, 1999, "", TRUE) >>

\* A room whose first message is a replay from the archive (not a new
\* message) and whose second, most recent message is not markable.
RoomUnmarkable ==
    << Message("m1", "room/al", "groupchat", (MucJid :> "s1"), TRUE, 1100, "hi", FALSE),
       Message("m2", "room/al", "groupchat", (MucJid :> "s2"), FALSE, 1999, "yo", TRUE) >>

\* A room with three stamped, markable messages.
RoomOfThree ==
    << Message("m1", "room/al", "groupchat", (MucJid :> "s1"), TRUE, 1100, "hi", TRUE),
       Message("m2", "room/al", "groupchat", (MucJid :> "s2"), TRUE, 1999, "yo", TRUE),
       Message("m3", "room/al", "groupchat", (MucJid :> "s3"), TRUE, 2500, "ok", TRUE) >>

\* A one-to-one conversation: a markable message of the contact, then the
\* local user's own outgoing message, which is not markable.
ChatMessages ==
    << Message("m1", "bob/x", "chat", (ContactJid :> "s1"), TRUE, 1100, "hi", TRUE),
       Message("m2", "me", "chat", (ContactJid :> NoVal), FALSE, 1999, "ok", FALSE) >>

Room == [type |-> CHATROOMS_TYPE, jid |-> MucJid]

ChatBox == [type |-> PRIVATE_CHAT_TYPE, jid |-> ContactJid]

\* The conversations a run starts with.
Conversations ==
    { [chat |-> Room, messages |-> RoomUnstamped],
      [chat |-> Room, messages |-> RoomUnmarkable],
      [chat |-> ChatBox, messages |-> ChatMessages] }

\* A one-to-one conversation with nothing but a message of the local user.
OwnOnly ==
    << Message("m1", "me", "chat", (ContactJid :> NoVal), FALSE, 1999, "ok", FALSE) >>

\* The conversations the outbound handlers are run on: those above, a
\* one-to-one conversation that has no message yet, and one that has no
\* markable message.
OutboundConversations ==
    Conversations \cup {[chat |-> ChatBox, messages |-> <<>>],
                        [chat |-> ChatBox, messages |-> OwnOnly]}

\* The wall clock of a run.
Clock == {4250}

\* ------------------------------------------------------------------------
\* State

VARIABLES
    chat,       \* the conversation: its type and JID
    messages,   \* chat.messages.models, oldest first
    markers,    \* chat.markers: the ChatMarker records, in collection order
    now,        \* the wall clock, in milliseconds
    outbox,     \* the stanzas the last call handed to api.send, in order
    last,       \* the last call: the function, its arguments, what it returned
    fetch       \* chat.markers.fetched and the load from storage behind it

vars == <<chat, messages, markers, now, outbox, last, fetch>>

\* ------------------------------------------------------------------------
\* The marker store

\* Collection.get(id): the position of the record with this id, 0 when none.
IndexOfId(store, id) ==
    IF \E i \in 1..Len(store) : store[i].id = id
    THEN CHOOSE i \in 1..Len(store) :
            /\ store[i].id = id
            /\ \A j \in 1..(i - 1) : store[j].id # id
    ELSE 0

\* The level `jid` has in a marked_by mapping, undefined when it has none.
LevelOf(marked_by, jid) ==
    IF jid \in DOMAIN marked_by THEN marked_by[jid] ELSE NoVal

\* JavaScript truthiness of an attribute value that is a string or undefined.
Truthy(v) == v # NoVal /\ v # ""

\* Object.assign(marked_by, {[by_jid]: type})
Assign(marked_by, by_jid, type) ==
    [j \in DOMAIN marked_by \cup {by_jid} |->
        IF j = by_jid THEN type ELSE marked_by[j]]

\* The sequence without its i-th element.
RemoveAt(seq, i) ==
    [k \in 1..(Len(seq) - 1) |-> IF k < i THEN seq[k] ELSE seq[k + 1]]

\* ChatMarker.removeMarkerJID of ./marker.js, on the i-th record: the entry
\* of `jid` is removed, and a record left with no entry is destroyed.
removeMarkerJID(store, i, jid) ==
    LET rest == [j \in DOMAIN store[i].marked_by \ {jid} |-> store[i].marked_by[j]]
    IN  IF DOMAIN rest = {}
        THEN RemoveAt(store, i)
        ELSE [store EXCEPT ![i].marked_by = rest]

\* chat.markers.findWhere(m => m.get('marked_by')?.[by_jid]): the position of
\* the first record that has a truthy entry for by_jid, 0 when none.
findWhereMarkedBy(store, by_jid) ==
    IF \E i \in 1..Len(store) : Truthy(LevelOf(store[i].marked_by, by_jid))
    THEN CHOOSE i \in 1..Len(store) :
            /\ Truthy(LevelOf(store[i].marked_by, by_jid))
            /\ \A j \in 1..(i - 1) : ~Truthy(LevelOf(store[j].marked_by, by_jid))
    ELSE 0

\* (new Date()).setMilliseconds(ms): the clock with its milliseconds replaced.
setMilliseconds(clock, ms) == (clock - (clock % MsPerSecond)) + ms

\* new Date(time).getMilliseconds()
getMilliseconds(time) == time % MsPerSecond

\* ------------------------------------------------------------------------
\* The functions of the plugin

\* A parameter with the default 'displayed'.
DefaultDisplayed(type) == IF type = NoVal THEN "displayed" ELSE type

\* The key taken from the stable id whatever the type of the message.
getMessageIdToMark_anyType(message) ==
    LET muc_jid == getBareJidFromJid(message.from)
        sid == StanzaId(message, muc_jid)
    IN  IF Truthy(sid) THEN sid ELSE message.msgid

\* getMessageIdToMark(message): the key a message is marked under.
getMessageIdToMark(message) ==
    IF message.type = "groupchat"
    THEN LET muc_jid == getBareJidFromJid(message.from)
             sid == StanzaId(message, muc_jid)
         IN  IF Truthy(sid) THEN sid ELSE message.msgid
    ELSE message.msgid

\* The growth guard tripping already when the room is at the ceiling.
OverCeiling_atCeiling(c, by_jid, occupants) ==
    /\ c.type = CHATROOMS_TYPE
    /\ by_jid # bare_jid
    /\ occupants >= muc_chat_markers_limit

\* The growth guard holding back the markers of the local user as well.
OverCeiling_anyone(c, by_jid, occupants) ==
    /\ c.type = CHATROOMS_TYPE
    /\ occupants > muc_chat_markers_limit

\* The growth guard of addChatMarker: a room, a marker of somebody else, and
\* more occupants than the ceiling.
OverCeiling(c, by_jid, occupants) ==
    /\ c.type = CHATROOMS_TYPE
    /\ by_jid # bare_jid
    /\ occupants > muc_chat_markers_limit

\* The merge taking a repeated marker as its withdrawal: an entry that is
\* already there at this level is deleted instead of written again.
MergeEntry_toggle(marked_by, by_jid, type) ==
    IF LevelOf(marked_by, by_jid) = type
    THEN [j \in DOMAIN marked_by \ {by_jid} |-> marked_by[j]]
    ELSE Assign(marked_by, by_jid, type)

\* Object.assign(marked.get('marked_by') || {}, marked_entry): the mapping of
\* an existing record with the entry of by_jid set to `type`.
MergeEntry(marked_by, by_jid, type) == Assign(marked_by, by_jid, type)

\* addChatMarker(chat, message, by_jid, type) on the store `store` of a
\* conversation `c` observed with `occupants` occupants at clock `clock`:
\* the store afterwards and what the call returns ("marker" for a ChatMarker,
\* "TypeError" when it throws).
addChatMarker(c, occupants, store, message, by_jid, type_arg, clock) ==
    LET type == DefaultDisplayed(type_arg) IN
    IF OverCeiling(c, by_jid, occupants)
    THEN [markers |-> store, ret |-> NoVal]
    ELSE IF type \notin DOMAIN MARKER_TYPES
    THEN [markers |-> store, ret |-> "TypeError"]
    ELSE
        LET marked_message_id == getMessageIdToMark(message)
            marked == IndexOfId(store, marked_message_id)
        IN  IF marked # 0
            THEN [markers |-> [store EXCEPT ![marked].marked_by =
                                    MergeEntry(@, by_jid, type)],
                  ret |-> "marker"]
            ELSE
                LET found == findWhereMarkedBy(store, by_jid)
                    cleaned == IF found = 0 THEN store
                               ELSE removeMarkerJID(store, found, by_jid)
                    marker_data ==
                        [id |-> marked_message_id,
                         marked_by |-> (by_jid :> type),
                         time |-> setMilliseconds(clock,
                                     getMilliseconds(message.time) + 1)]
                IN  [markers |-> Append(cleaned, marker_data), ret |-> "marker"]

\* sendChatMarker(to_jid, id, type, msg_type): the stanza handed to api.send.
\* Its own id, u.getUniqueId(), is fresh for every stanza and is left out.
sendChatMarker(to_jid, id, type, msg_type) ==
    [from |-> "me/desk", to |-> to_jid,
     type |-> IF Truthy(msg_type) THEN msg_type ELSE "chat",
     marker |-> type, id |-> id]

\* chat.markers.get(mid)?.get('marked_by')?.[_converse.bare_jid]
MarkedByMe(store, mid) ==
    LET i == IndexOfId(store, mid)
    IN  IF i = 0 THEN NoVal ELSE LevelOf(store[i].marked_by, bare_jid)

\* The guard with the comparison done on ranks, but strict: a marker of the
\* same rank as the stored one is not taken as already sent.
AlreadyMarked_strict(store, mid, type) ==
    LET stored == MarkedByMe(store, mid)
    IN  stored # NoVal /\ MARKER_TYPES[stored] > MARKER_TYPES[type]

\* The guard of sendMarkerForMUCMessage as JavaScript parses it: ?? binds
\* weaker than >, so it reads  stored ?? (-1 > MARKER_TYPES[type])  and the
\* value is tested for truthiness.
AlreadyMarked(store, mid, type) ==
    LET stored == MarkedByMe(store, mid)
    IN  IF stored # NoVal THEN Truthy(stored) ELSE -1 > MARKER_TYPES[type]

\* The room send falling back on the client id when the message has no
\* stable id of the room.
sendMarkerForMUCMessage_fallback(c, store, msg, type_arg, send_chat_markers) ==
    LET type == DefaultDisplayed(type_arg)
        quiet == [sent |-> <<>>, logged |-> FALSE]
    IN  IF type \notin DOMAIN MARKER_TYPES
        THEN quiet @@ [ret |-> "TypeError"]
        ELSE IF IsUndefined(msg) \/ type \notin send_chat_markers
        THEN quiet @@ [ret |-> "false"]
        ELSE IF msg.is_markable
        THEN LET mid == getMessageIdToMark(msg) IN
             IF AlreadyMarked(store, mid, type)
             THEN quiet @@ [ret |-> "false"]
             ELSE [sent |-> << sendChatMarker(getBareJidFromJid(msg.from),
                                              mid, type, msg.type) >>,
                   logged |-> FALSE, ret |-> "true"]
        ELSE quiet @@ [ret |-> "false"]

\* sendMarkerForMUCMessage(chat, msg, type): the stanzas sent, what the call
\* returns and whether log.error was called.  `msg` is a message or undefined.
sendMarkerForMUCMessage(c, store, msg, type_arg, send_chat_markers) ==
    LET type == DefaultDisplayed(type_arg)
        quiet == [sent |-> <<>>, logged |-> FALSE]
    IN  IF type \notin DOMAIN MARKER_TYPES
        THEN quiet @@ [ret |-> "TypeError"]
        ELSE IF IsUndefined(msg) \/ type \notin send_chat_markers
        THEN quiet @@ [ret |-> "false"]
        ELSE IF msg.is_markable
        THEN LET mid == getMessageIdToMark(msg) IN
             IF AlreadyMarked(store, mid, type)
             THEN quiet @@ [ret |-> "false"]
             ELSE LET id == StanzaId(msg, c.jid) IN
                  IF ~Truthy(id)
                  THEN [sent |-> <<>>, logged |-> TRUE, ret |-> "false"]
                  ELSE [sent |-> << sendChatMarker(getBareJidFromJid(msg.from),
                                                   id, type, msg.type) >>,
                        logged |-> FALSE, ret |-> "true"]
        ELSE quiet @@ [ret |-> "false"]

\* model.messages.findWhere({'msgid': marker_id}): the position of the first
\* message with this client id, 0 when none.
findWhereMsgid(msgs, marker_id) ==
    IF \E i \in 1..Len(msgs) : msgs[i].msgid = marker_id
    THEN CHOOSE i \in 1..Len(msgs) :
            /\ msgs[i].msgid = marker_id
            /\ \A j \in 1..(i - 1) : msgs[j].msgid # marker_id
    ELSE 0

\* The handler reporting a marker as handled only when it found the message
\* the marker is for.
handleChatMarker_found(c, occupants, store, msgs, attrs, handled, clock) ==
    LET to_bare_jid == getBareJidFromJid(attrs.to) IN
    IF to_bare_jid # bare_jid
    THEN [markers |-> store, ret |-> handled]
    ELSE IF Truthy(attrs.marker_id)
    THEN LET message == findWhereMsgid(msgs, attrs.marker_id) IN
         IF message = 0
         THEN [markers |-> store, ret |-> handled]
         ELSE LET r == addChatMarker(c, occupants, store, msgs[message],
                                     msgs[message].from, msgs[message].marker,
                                     clock)
              IN  IF r.ret = "TypeError" THEN r
                  ELSE [markers |-> r.markers, ret |-> "true"]
    ELSE [markers |-> store, ret |-> handled]

\* handleChatMarker({attrs, model}, handled): the store afterwards and what
\* the call returns.
handleChatMarker(c, occupants, store, msgs, attrs, handled, clock) ==
    LET to_bare_jid == getBareJidFromJid(attrs.to) IN
    IF to_bare_jid # bare_jid
    THEN [markers |-> store, ret |-> handled]
    ELSE IF Truthy(attrs.marker_id)
    THEN LET message == findWhereMsgid(msgs, attrs.marker_id) IN
         IF message = 0
         THEN [markers |-> store, ret |-> "true"]
         ELSE LET r == addChatMarker(c, occupants, store, msgs[message],
                                     msgs[message].from, msgs[message].marker,
                                     clock)
              IN  IF r.ret = "TypeError" THEN r
                  ELSE [markers |-> r.markers, ret |-> "true"]
    ELSE [markers |-> store, ret |-> handled]

\* onMessageUpdated(chat, message): the store afterwards, the stanzas sent and
\* whether log.error was called.
onMessageUpdated(c, hidden, occupants, store, message, send_chat_markers, clock) ==
    IF hidden \/ c.type # CHATROOMS_TYPE
    THEN [markers |-> store, sent |-> <<>>, logged |-> FALSE]
    ELSE LET s == sendMarkerForMUCMessage(c, store, message, NoVal,
                                          send_chat_markers)
         IN  IF s.ret = "true"
             THEN [markers |-> addChatMarker(c, occupants, store, message,
                                             bare_jid, NoVal, clock).markers,
                   sent |-> s.sent, logged |-> s.logged]
             ELSE [markers |-> store, sent |-> s.sent, logged |-> s.logged]

\* A handler's result when it does nothing.
Nothing(store, msgs) ==
    [markers |-> store, sent |-> <<>>, messages |-> msgs, logged |-> FALSE]

\* The send that `force` carries past the send_chat_markers setting too.
sendMarkerForMessage_forced(msg, type_arg, force, send_chat_markers) ==
    LET type == DefaultDisplayed(type_arg) IN
    IF IsUndefined(msg) \/ (type \notin send_chat_markers /\ ~force)
    THEN [sent |-> <<>>, ret |-> "false", msg |-> msg]
    ELSE IF msg.is_markable \/ force
    THEN [sent |-> << sendChatMarker(getBareJidFromJid(msg.from), msg.msgid,
                                     type, msg.type) >>,
          ret |-> "true",
          msg |-> [msg EXCEPT !.field_name = Append(<<>>, bare_jid)]]
    ELSE [sent |-> <<>>, ret |-> "false", msg |-> msg]

\* sendMarkerForMessage(msg, type, force): the stanzas sent, what the call
\* returns and the message as msg.save leaves it.  The save writes the
\* attribute named `field_name`, and msg.get('marked_' + type) is never set,
\* so the list saved is [bare_jid].
sendMarkerForMessage(msg, type_arg, force, send_chat_markers) ==
    LET type == DefaultDisplayed(type_arg) IN
    IF IsUndefined(msg) \/ type \notin send_chat_markers
    THEN [sent |-> <<>>, ret |-> "false", msg |-> msg]
    ELSE IF msg.is_markable \/ force
    THEN [sent |-> << sendChatMarker(getBareJidFromJid(msg.from), msg.msgid,
                                     type, msg.type) >>,
          ret |-> "true",
          msg |-> [msg EXCEPT !.field_name = Append(<<>>, bare_jid)]]
    ELSE [sent |-> <<>>, ret |-> "false", msg |-> msg]

\* msgs.reverse(); msgs.find(m => force || m.get('is_markable')): the position
\* of the most recent message that qualifies, 0 when none does.
findLast(msgs, force) ==
    LET found == {i \in 1..Len(msgs) : force \/ msgs[i].is_markable}
    IN  IF found = {} THEN 0
        ELSE CHOOSE i \in found : \A j \in found : j <= i

\* The search run on the list as it is kept, oldest message first.
findFirst(msgs, force) ==
    LET found == {i \in 1..Len(msgs) : force \/ msgs[i].is_markable}
    IN  IF found = {} THEN 0
        ELSE CHOOSE i \in found : \A j \in found : i <= j

\* The handler without msgs.reverse(): it marks the oldest qualifying message.
sendMarkerForLastMessage_oldest(c, occupants, store, msgs, type_arg, force, send_chat_markers, clock) ==
    LET m == findFirst(msgs, force) IN
    IF m = 0 THEN Nothing(store, msgs)
    ELSE LET s == sendMarkerForMessage(msgs[m], type_arg, force,
                                       send_chat_markers)
         IN  IF s.ret = "true"
             THEN [markers |-> addChatMarker(c, occupants, store, s.msg,
                                             bare_jid, NoVal, clock).markers,
                   sent |-> s.sent,
                   messages |-> [msgs EXCEPT ![m] = s.msg],
                   logged |-> FALSE]
             ELSE Nothing(store, msgs)

\* sendMarkerForLastMessage(chat, type, force): the store afterwards, the
\* stanzas sent and the messages afterwards.  addChatMarker is called
\* without a type.
sendMarkerForLastMessage(c, occupants, store, msgs, type_arg, force, send_chat_markers, clock) ==
    LET m == findLast(msgs, force) IN
    IF m = 0 THEN Nothing(store, msgs)
    ELSE LET s == sendMarkerForMessage(msgs[m], type_arg, force,
                                       send_chat_markers)
         IN  IF s.ret = "true"
             THEN [markers |-> addChatMarker(c, occupants, store, s.msg,
                                             bare_jid, NoVal, clock).markers,
                   sent |-> s.sent,
                   messages |-> [msgs EXCEPT ![m] = s.msg],
                   logged |-> FALSE]
             ELSE Nothing(store, msgs)

\* sendMarkerForMessage(message) && addChatMarker(chat, message, bare_jid)
\* on the message at position m, with `force` as the caller passes it.
MarkAndRecord(c, occupants, store, msgs, m, force, send_chat_markers, clock) ==
    LET s == sendMarkerForMessage(IF m = 0 THEN NoMessage ELSE msgs[m], NoVal,
                                  force, send_chat_markers)
    IN  IF s.ret = "true"
        THEN [markers |-> addChatMarker(c, occupants, store, s.msg, bare_jid,
                                        NoVal, clock).markers,
              sent |-> s.sent,
              messages |-> [msgs EXCEPT ![m] = s.msg],
              logged |-> FALSE]
        ELSE Nothing(store, msgs)

\* The handler marking a new message of a hidden conversation as well.
handleUnreadMessage_hidden(c, hidden, occupants, store, msgs, m, send_chat_markers, clock) ==
    IF m = 0 \/ ~Truthy(msgs[m].body) \/ ~msgs[m].is_new
    THEN Nothing(store, msgs)
    ELSE MarkAndRecord(c, occupants, store, msgs, m, FALSE, send_chat_markers,
                       clock)

\* handleUnreadMessage(chat, message), the message at position m (0 when
\* undefined); u.isNewMessage tells a new message from a replayed one.
handleUnreadMessage(c, hidden, occupants, store, msgs, m, send_chat_markers, clock) ==
    IF m = 0 \/ ~Truthy(msgs[m].body) \/ ~msgs[m].is_new \/ hidden
    THEN Nothing(store, msgs)
    ELSE MarkAndRecord(c, occupants, store, msgs, m, FALSE, send_chat_markers,
                       clock)

\* The handler sending without force: only a markable message is marked.
onMessageSent_unforced(c, hidden, occupants, store, msgs, m, send_chat_markers, clock) ==
    IF hidden \/ c.type = CHATROOMS_TYPE
    THEN Nothing(store, msgs)
    ELSE MarkAndRecord(c, occupants, store, msgs, m, FALSE, send_chat_markers,
                       clock)

\* onMessageSent({chatbox, message}), the message at position m.
onMessageSent(c, hidden, occupants, store, msgs, m, send_chat_markers, clock) ==
    IF hidden \/ c.type = CHATROOMS_TYPE
    THEN Nothing(store, msgs)
    ELSE MarkAndRecord(c, occupants, store, msgs, m, TRUE, send_chat_markers,
                       clock)

\* onUnreadsCleared(chat): the message is chat.messages.last().
onUnreadsCleared(c, unreads, occupants, store, msgs, send_chat_markers, clock) ==
    LET m == Len(msgs) IN
    IF c.type = CHATROOMS_TYPE
    THEN IF unreads.num_unread_general > 0 \/ unreads.num_unread > 0
            \/ unreads.has_activity
         THEN LET message == IF m = 0 THEN NoMessage ELSE msgs[m]
                  s == sendMarkerForMUCMessage(c, store, message, NoVal,
                                               send_chat_markers)
              IN  IF s.ret = "true"
                  THEN [markers |-> addChatMarker(c, occupants, store, message,
                                                  bare_jid, NoVal, clock).markers,
                        sent |-> s.sent, messages |-> msgs,
                        logged |-> s.logged]
                  ELSE [markers |-> store, sent |-> s.sent, messages |-> msgs,
                        logged |-> s.logged]
         ELSE Nothing(store, msgs)
    ELSE IF unreads.num_unread > 0
         THEN MarkAndRecord(c, occupants, store, msgs, m, FALSE,
                            send_chat_markers, clock)
         ELSE Nothing(store, msgs)

\* resolve of the promise chat.markers.fetched.
resolve(f) == [f EXCEPT !.fetched = "resolved", !.resolves = @ + 1]

\* initChatMarkers(model): an empty collection, an open promise `fetched`,
\* and a fetch from storage under way.
initChatMarkers(model) ==
    [markers |-> <<>>,
     fetch |-> [load |-> "pending", fetched |-> "open", resolves |-> 0,
                response |-> <<>>, queued |-> FALSE]]

\* ------------------------------------------------------------------------
\* Calls

\* The participants a marker is recorded for: the local user, and the senders
\* of the conversation's messages.
ByJids == {bare_jid} \cup {messages[i].from : i \in 1..Len(messages)}

Types == DOMAIN MARKER_TYPES \cup {InvalidType}

NoAttrs == [to |-> NoVal, from |-> NoVal, marker_id |-> NoVal, marker |-> NoVal]

\* The attributes of an incoming stanza: sent by the contact or an occupant,
\* to the local user or (a carbon copy, a forwarded stanza) to someone else;
\* a marker for a message of the conversation, for an unknown message, or no
\* marker at all.
IncomingAttrs ==
    [to : {"me/desk", "bob/x"},
     from : {IF chat.type = CHATROOMS_TYPE THEN "room/al" ELSE "bob/x"},
     marker_id : {NoVal, "zz"} \cup {messages[i].msgid : i \in 1..Len(messages)},
     marker : DOMAIN MARKER_TYPES]

\* chat.get('num_unread_general'), chat.get('num_unread') and
\* chat.get('has_activity') as onUnreadsCleared may find them.
NoUnreads == [num_unread_general |-> 0, num_unread |-> 0, has_activity |-> FALSE]

UnreadStates ==
    { NoUnreads,
      [NoUnreads EXCEPT !.num_unread_general = 1],
      [NoUnreads EXCEPT !.num_unread = 1],
      [NoUnreads EXCEPT !.has_activity = TRUE] }

NoCall ==
    [op |-> "none", msg |-> 0, by |-> NoVal, type |-> NoVal, occupants |-> 0,
     hidden |-> FALSE, send_chat_markers |-> {}, attrs |-> NoAttrs,
     handled |-> NoVal, ret |-> NoVal, logged |-> FALSE, force |-> FALSE,
     unreads |-> NoUnreads]

\* The store's load from storage: not started, pending, or answered by the
\* storage with success or error; what the storage answered with; whether
\* the callback of the fetch is still to run; the state of the promise
\* chat.markers.fetched; how often its resolve was called.
NotFetched ==
    [load |-> "none", fetched |-> "none", resolves |-> 0, response |-> <<>>,
     queued |-> FALSE]

\* A store whose load has finished and whose promise is resolved.
Fetched ==
    [load |-> "success", fetched |-> "resolved", resolves |-> 1,
     response |-> <<>>, queued |-> FALSE]

\* What the storage may hold of an earlier session: nothing, or a record of
\* a marker of the conversation's first message.
PersistedMarkers ==
    { <<>>,
      << [id |-> getMessageIdToMark(messages[1]),
          marked_by |-> (messages[1].from :> "displayed"),
          time |-> 3101] >> }

\* The message argument of a call: a message of the conversation, or undefined.
MessageArg(m) == IF m = 0 THEN NoMessage ELSE messages[m]

InitOf(conversations) ==
    /\ \E conv \in conversations :
        /\ chat = conv.chat
        /\ messages = conv.messages
    /\ markers = <<>>
    /\ now \in Clock
    /\ outbox = <<>>
    /\ last = NoCall
    /\ fetch = Fetched

Init == InitOf(Conversations)

\* No call is running: the previous call has returned to the event loop.
Idle == last.op = "none"

\* The caller takes the result of the last call and the connection has
\* flushed the stanzas handed to it.
Return ==
    /\ ~Idle
    /\ last' = NoCall
    /\ outbox' = <<>>
    /\ UNCHANGED <<chat, messages, markers, now, fetch>>

Call_addChatMarker ==
    /\ Idle
    /\ \E m \in 1..Len(messages), by_jid \in ByJids, type \in Types,
          occupants \in Occupants(chat) :
         LET r == addChatMarker(chat, occupants, markers, messages[m], by_jid,
                                type, now)
         IN  /\ markers' = r.markers
             /\ outbox' = <<>>
             /\ last' = [NoCall EXCEPT !.op = "addChatMarker", !.msg = m,
                             !.by = by_jid, !.type = type,
                             !.occupants = occupants, !.ret = r.ret]
             /\ UNCHANGED <<chat, messages, now, fetch>>

Call_sendMarkerForMUCMessage ==
    /\ Idle
    /\ \E m \in 0..Len(messages), type \in Types, setting \in SendSettings :
         LET r == sendMarkerForMUCMessage(chat, markers, MessageArg(m), type,
                                          setting)
         IN  /\ outbox' = r.sent
             /\ last' = [NoCall EXCEPT !.op = "sendMarkerForMUCMessage",
                             !.msg = m, !.type = type,
                             !.send_chat_markers = setting,
                             !.ret = r.ret, !.logged = r.logged]
             /\ UNCHANGED <<chat, messages, markers, now, fetch>>

Call_handleChatMarker ==
    /\ Idle
    /\ \E attrs \in IncomingAttrs, handled \in {"true", "false"},
          occupants \in Occupants(chat) :
         LET r == handleChatMarker(chat, occupants, markers, messages, attrs,
                                   handled, now)
         IN  /\ markers' = r.markers
             /\ outbox' = <<>>
             /\ last' = [NoCall EXCEPT !.op = "handleChatMarker",
                             !.attrs = attrs, !.handled = handled,
                             !.occupants = occupants, !.ret = r.ret]
             /\ UNCHANGED <<chat, messages, now, fetch>>

Call_onMessageUpdated ==
    /\ Idle
    /\ \E m \in 1..Len(messages), hidden \in BOOLEAN, setting \in SendSettings,
          occupants \in Occupants(chat) :
         LET r == onMessageUpdated(chat, hidden, occupants, markers,
                                   messages[m], setting, now)
         IN  /\ markers' = r.markers
             /\ outbox' = r.sent
             /\ last' = [NoCall EXCEPT !.op = "onMessageUpdated", !.msg = m,
                             !.hidden = hidden, !.occupants = occupants,
                             !.send_chat_markers = setting,
                             !.logged = r.logged]
             /\ UNCHANGED <<chat, messages, now, fetch>>

Call_sendMarkerForMessage ==
    /\ Idle
    /\ \E m \in 0..Len(messages), type \in Types, force \in BOOLEAN,
          setting \in SendSettings :
         LET r == sendMarkerForMessage(MessageArg(m), type, force, setting)
         IN  /\ outbox' = r.sent
             /\ messages' = IF m = 0 THEN messages
                             ELSE [messages EXCEPT ![m] = r.msg]
             /\ last' = [NoCall EXCEPT !.op = "sendMarkerForMessage",
                             !.msg = m, !.type = type, !.force = force,
                             !.send_chat_markers = setting, !.ret = r.ret]
             /\ UNCHANGED <<chat, markers, now, fetch>>

Call_sendMarkerForLastMessage ==
    /\ Idle
    /\ \E type \in Types, force \in BOOLEAN, setting \in SendSettings,
          occupants \in Occupants(chat) :
         LET r == sendMarkerForLastMessage(chat, occupants, markers, messages,
                                           type, force, setting, now)
         IN  /\ markers' = r.markers
             /\ outbox' = r.sent
             /\ messages' = r.messages
             /\ last' = [NoCall EXCEPT !.op = "sendMarkerForLastMessage",
                             !.type = type, !.force = force,
                             !.occupants = occupants,
                             !.send_chat_markers = setting]
             /\ UNCHANGED <<chat, now, fetch>>

Call_handleUnreadMessage ==
    /\ Idle
    /\ \E m \in 0..Len(messages), hidden \in BOOLEAN, setting \in SendSettings,
          occupants \in Occupants(chat) :
         LET r == handleUnreadMessage(chat, hidden, occupants, markers,
                                      messages, m, setting, now)
         IN  /\ markers' = r.markers
             /\ outbox' = r.sent
             /\ messages' = r.messages
             /\ last' = [NoCall EXCEPT !.op = "handleUnreadMessage", !.msg = m,
                             !.hidden = hidden, !.occupants = occupants,
                             !.send_chat_markers = setting]
             /\ UNCHANGED <<chat, now, fetch>>

Call_onMessageSent ==
    /\ Idle
    /\ \E m \in 1..Len(messages), hidden \in BOOLEAN, setting \in SendSettings,
          occupants \in Occupants(chat) :
         LET r == onMessageSent(chat, hidden, occupants, markers, messages, m,
                                setting, now)
         IN  /\ markers' = r.markers
             /\ outbox' = r.sent
             /\ messages' = r.messages
             /\ last' = [NoCall EXCEPT !.op = "onMessageSent", !.msg = m,
                             !.hidden = hidden, !.occupants = occupants,
                             !.send_chat_markers = setting]
             /\ UNCHANGED <<chat, now, fetch>>

Call_onUnreadsCleared ==
    /\ Idle
    /\ \E unreads \in UnreadStates, setting \in SendSettings,
          occupants \in Occupants(chat) :
         LET r == onUnreadsCleared(chat, unreads, occupants, markers, messages,
                                   setting, now)
         IN  /\ markers' = r.markers
             /\ outbox' = r.sent
             /\ messages' = r.messages
             /\ last' = [NoCall EXCEPT !.op = "onUnreadsCleared",
                             !.unreads = unreads, !.occupants = occupants,
                             !.send_chat_markers = setting,
                             !.logged = r.logged]
             /\ UNCHANGED <<chat, now, fetch>>

\* initChatMarkers(model), called once when the conversation is set up.
Call_initChatMarkers ==
    /\ Idle
    /\ fetch.load = "none"
    /\ LET r == initChatMarkers(chat)
       IN  /\ markers' = r.markers
           /\ fetch' = r.fetch
    /\ UNCHANGED <<chat, messages, now, outbox, last>>

\* The storage answers the fetch: with what it holds, or with an error.
StorageResponds ==
    /\ fetch.load = "pending"
    /\ \/ \E persisted \in PersistedMarkers :
            fetch' = [fetch EXCEPT !.load = "success", !.response = persisted,
                                   !.queued = TRUE]
       \/ fetch' = [fetch EXCEPT !.load = "error", !.queued = TRUE]
    /\ UNCHANGED <<chat, messages, markers, now, outbox, last>>

\* The fetch given resolve as its 'success' callback only: after an error
\* nothing is called.
FetchCallback_successOnly ==
    /\ fetch.queued
    /\ markers' = IF fetch.load = "success" THEN fetch.response ELSE markers
    /\ fetch' = IF fetch.load = "success"
                THEN [resolve(fetch) EXCEPT !.queued = FALSE, !.response = <<>>]
                ELSE [fetch EXCEPT !.queued = FALSE]
    /\ UNCHANGED <<chat, messages, now, outbox, last>>

\* The fetch finishes: on success the collection takes what was loaded and
\* the 'success' callback runs, on failure the 'error' callback; both are
\* resolve.
FetchCallback ==
    /\ fetch.queued
    /\ markers' = IF fetch.load = "success" THEN fetch.response ELSE markers
    /\ fetch' = [resolve(fetch) EXCEPT !.queued = FALSE, !.response = <<>>]
    /\ UNCHANGED <<chat, messages, now, outbox, last>>

Next ==
    \/ Call_addChatMarker
    \/ Call_sendMarkerForMUCMessage
    \/ Call_handleChatMarker
    \/ Call_onMessageUpdated
    \/ Return

Spec == Init /\ [][Next]_vars

\* A room of three messages on which only addChatMarker is called.
InitReconcile == InitOf({[chat |-> Room, messages |-> RoomOfThree]})

NextReconcile == Call_addChatMarker \/ Return

SpecReconcile == InitReconcile /\ [][NextReconcile]_vars

\* The handlers that send markers, on every conversation; markers of other
\* participants come in through handleChatMarker.
InitOutbound == InitOf(OutboundConversations)

NextOutbound ==
    \/ Call_sendMarkerForMessage
    \/ Call_sendMarkerForMUCMessage
    \/ Call_sendMarkerForLastMessage
    \/ Call_handleUnreadMessage
    \/ Call_onMessageUpdated
    \/ Call_onMessageSent
    \/ Call_onUnreadsCleared
    \/ Call_addChatMarker
    \/ Return

SpecOutbound == InitOutbound /\ [][NextOutbound]_vars

\* A conversation from before its store is set up.  The store is used once
\* `fetched` is resolved.  The event loop runs the callback of a fetch that
\* the storage has answered: weak fairness of FetchCallback.
UseStore == fetch.fetched = "resolved" /\ Call_addChatMarker

InitLifecycle ==
    /\ \E conv \in Conversations :
        /\ chat = conv.chat
        /\ messages = conv.messages
    /\ markers = <<>>
    /\ now \in Clock
    /\ outbox = <<>>
    /\ last = NoCall
    /\ fetch = NotFetched

NextLifecycle ==
    \/ Call_initChatMarkers
    \/ StorageResponds
    \/ FetchCallback
    \/ UseStore
    \/ Return

SpecLifecycle ==
    InitLifecycle /\ [][NextLifecycle]_vars /\ WF_vars(FetchCallback)

\* ------------------------------------------------------------------------
\* Properties

Rank(level) == MARKER_TYPES[level]

Levels == DOMAIN MARKER_TYPES

\* Every participant identifier a store of the conversation may hold.
Participants == ByJids \cup {"bob/x", "room/al"}

\* The positions of the records whose marked_by holds `jid`.
RecordsMarkedBy(store, jid) ==
    {i \in 1..Len(store) : jid \in DOMAIN store[i].marked_by}

\* The level `jid` has on the record of key `id`, undefined when it has none.
LevelOn(store, id, jid) ==
    LET i == IndexOfId(store, id)
    IN  IF i = 0 THEN NoVal ELSE LevelOf(store[i].marked_by, jid)

Keys(store) == {store[i].id : i \in 1..Len(store)}

\* C1: single-pointer invariant. Every participant is in the marked_by
\* mapping of at most one record of the conversation's store.
SinglePointer ==
    \A jid \in Participants : Cardinality(RecordsMarkedBy(markers, jid)) <= 1

\* The call sendMarkerForMUCMessage(chat, M, L') has just run in a room on a
\* markable, stamped message M, with L' valid and enabled, while the store
\* credits the local user on M at some level.  (The call leaves the store as
\* it found it.)
MucSendOnCredited ==
    /\ last.op = "sendMarkerForMUCMessage"
    /\ chat.type = CHATROOMS_TYPE
    /\ last.msg # 0
    /\ last.type \in Levels
    /\ last.type \in last.send_chat_markers
    /\ messages[last.msg].is_markable
    /\ Truthy(StanzaId(messages[last.msg], chat.jid))
    /\ MarkedByMe(markers, getMessageIdToMark(messages[last.msg])) \in Levels

\* C2: monotonic room acknowledgment, upgrade half. With the local user
\* credited on M at level L, sendMarkerForMUCMessage for M at a level of
\* strictly higher rank transmits a marker and returns true.
UpgradeIsSent ==
    ( /\ MucSendOnCredited
      /\ Rank(last.type) >
            Rank(MarkedByMe(markers, getMessageIdToMark(messages[last.msg]))) )
    => /\ last.ret = "true"
       /\ Len(outbox) = 1
       /\ outbox[1].marker = last.type

\* C3: monotonic room acknowledgment, suppression half. In a room, with the
\* local user credited on M at level L, a sendMarkerForMUCMessage for M at a
\* level of rank lower than or equal to L (also the one onMessageUpdated
\* makes at 'displayed') transmits nothing, returns false and leaves the
\* store unchanged.
LowerOrEqualIsSuppressed ==
    [][ /\ ( /\ last'.op = "sendMarkerForMUCMessage"
             /\ chat.type = CHATROOMS_TYPE
             /\ last'.msg # 0
             /\ last'.type \in Levels
             /\ LET L == MarkedByMe(markers,
                            getMessageIdToMark(messages[last'.msg]))
                IN  L \in Levels /\ Rank(last'.type) <= Rank(L) )
           => /\ last'.ret = "false"
              /\ outbox' = <<>>
              /\ markers' = markers
        /\ ( /\ last'.op = "onMessageUpdated"
             /\ chat.type = CHATROOMS_TYPE
             /\ LET L == MarkedByMe(markers,
                            getMessageIdToMark(messages[last'.msg]))
                IN  L \in Levels /\ Rank("displayed") <= Rank(L) )
           => /\ outbox' = <<>>
              /\ markers' = markers
      ]_vars

\* A send at a rank not above the stored one was suppressed by the guard
\* alone: the message is markable and stamped, the level is enabled.
SuppressedByGuard ==
    /\ MucSendOnCredited
    /\ Rank(last.type) <=
          Rank(MarkedByMe(markers, getMessageIdToMark(messages[last.msg])))
    /\ last.ret = "false"
    /\ outbox = <<>>

\* C4: room growth guard. In a room with more occupants than the ceiling,
\* addChatMarker for a participant other than the local user returns nothing
\* and leaves the store unchanged; for the local user it does what it does
\* in a room under the ceiling. A room exactly at the ceiling is not guarded.
RoomGrowthGuard ==
    [][ (last'.op = "addChatMarker" /\ chat.type = CHATROOMS_TYPE) =>
          LET message == messages[last'.msg]
              by_jid == last'.by
              type == last'.type
              under == addChatMarker(chat, 0, markers, message, by_jid, type, now)
              applied ==
                  /\ markers' = under.markers
                  /\ last'.ret = under.ret
                  /\ type \in Levels =>
                        /\ last'.ret = "marker"
                        /\ LevelOn(markers', getMessageIdToMark(message),
                                   by_jid) = type
          IN  /\ (last'.occupants > muc_chat_markers_limit /\ by_jid # bare_jid)
                    => (last'.ret = NoVal /\ markers' = markers)
              /\ (last'.occupants > muc_chat_markers_limit /\ by_jid = bare_jid)
                    => applied
              /\ (last'.occupants = muc_chat_markers_limit) => applied
      ]_vars

\* addChatMarker has recorded the local user's marker in a room above the
\* ceiling.
LocalUserMarkedAboveCeiling ==
    /\ last.op = "addChatMarker"
    /\ chat.type = CHATROOMS_TYPE
    /\ last.occupants > muc_chat_markers_limit
    /\ last.by = bare_jid
    /\ last.ret = "marker"
    /\ LevelOn(markers, getMessageIdToMark(messages[last.msg]), bare_jid)
          = last.type

\* C5: never-downgrading levels. While a participant stays on the record of
\* a message, the rank of the level recorded for it never decreases.
NeverDowngrades ==
    [][ \A id \in Keys(markers) \cap Keys(markers'), jid \in Participants :
          ( /\ LevelOn(markers, id, jid) \in Levels
            /\ LevelOn(markers', id, jid) \in Levels )
          => Rank(LevelOn(markers', id, jid)) >= Rank(LevelOn(markers, id, jid))
      ]_vars

\* The records of a store, by message key with their marked_by mappings.
Records(store) ==
    {[id |-> store[i].id, marked_by |-> store[i].marked_by] : i \in 1..Len(store)}

\* C6: idempotence of reconcile. After addChatMarker has run, running it
\* again with the same arguments leaves the records of the store, by key
\* with their marked_by mappings, as the first call left them.
ReconcileIsIdempotent ==
    last.op = "addChatMarker" =>
        LET again == addChatMarker(chat, last.occupants, markers,
                                   messages[last.msg], last.by, last.type, now)
        IN  /\ Records(again.markers) = Records(markers)
            /\ again.ret = last.ret

\* addChatMarker has merged an entry into a record that several participants
\* mark, in a store of several records.
MergedIntoSharedRecord ==
    /\ last.op = "addChatMarker"
    /\ last.ret = "marker"
    /\ Len(markers) >= 2
    /\ LET i == IndexOfId(markers, getMessageIdToMark(messages[last.msg]))
       IN  i # 0 /\ Cardinality(DOMAIN markers[i].marked_by) >= 2

\* C7: move semantics on a new record. When addChatMarker(chat, M, P, L) is
\* applied and M's key has no record, then afterwards the record of M's key
\* has marked_by exactly {P: L}, P is on no other record, no record has an
\* empty marked_by, and the entries of every other participant are as they
\* were.
MovesToNewRecord ==
    [][ ( /\ last'.op = "addChatMarker"
          /\ last'.ret = "marker"
          /\ IndexOfId(markers, getMessageIdToMark(messages[last'.msg])) = 0 )
        => LET key == getMessageIdToMark(messages[last'.msg])
               P == last'.by
           IN  /\ IndexOfId(markers', key) # 0
               /\ markers'[IndexOfId(markers', key)].marked_by = (P :> last'.type)
               /\ \A i \in 1..Len(markers') :
                     markers'[i].id # key => P \notin DOMAIN markers'[i].marked_by
               /\ \A i \in 1..Len(markers') : DOMAIN markers'[i].marked_by # {}
               /\ \A Q \in Participants \ {P}, id \in Keys(markers) \cup Keys(markers') :
                     LevelOn(markers', id, Q) = LevelOn(markers, id, Q)
      ]_vars

\* C8: an invalid level is always rejected. addChatMarker and
\* sendMarkerForMUCMessage called with a level outside MARKER_TYPES throw,
\* transmit nothing and leave the store unchanged, whatever the conversation,
\* the participant and the number of occupants.
InvalidLevelIsRejected ==
    [][ ( /\ last'.op \in {"addChatMarker", "sendMarkerForMUCMessage"}
          /\ last'.type \notin Levels )
        => /\ last'.ret = "TypeError"
           /\ outbox' = <<>>
           /\ markers' = markers
      ]_vars

\* handleChatMarker has just run on attributes addressed to the local user
\* that carry a marker_id (read in the state after the call).
InboundMarkerForMe(call) ==
    /\ call.op = "handleChatMarker"
    /\ getBareJidFromJid(call.attrs.to) = bare_jid
    /\ Truthy(call.attrs.marker_id)

\* C9: inbound marker application. When handleChatMarker gets attributes
\* addressed to the local user whose marker_id is the client id of a message
\* M of the conversation, the store becomes what addChatMarker makes of it
\* for the sender and the level of the incoming marker.
InboundMarkerIsApplied ==
    [][ ( /\ InboundMarkerForMe(last')
          /\ findWhereMsgid(messages, last'.attrs.marker_id) # 0 )
        => LET M == messages[findWhereMsgid(messages, last'.attrs.marker_id)]
           IN  markers' = addChatMarker(chat, last'.occupants, markers, M,
                                        last'.attrs.from, last'.attrs.marker,
                                        now).markers
      ]_vars

Ran(op) == last.op = op

\* The stanzas of the outbox that are markers at `level` for the client id
\* `id`.
MarkersSent(box, id, level) ==
    {i \in 1..Len(box) : box[i].id = id /\ box[i].marker = level}

\* C11 as stated: when onMessageSent runs for a message M of a one-to-one
\* conversation and 'displayed' is enabled, a displayed marker for M is sent
\* and the store credits the local user on M at displayed, markable or not;
\* in a room it sends nothing and leaves the store as it was.
OwnMessageDelivery ==
    [][ last'.op = "onMessageSent" =>
          IF chat.type = CHATROOMS_TYPE
          THEN outbox' = <<>> /\ markers' = markers
          ELSE "displayed" \in last'.send_chat_markers =>
                 LET M == messages[last'.msg] IN
                 /\ Len(outbox') = 1
                 /\ MarkersSent(outbox', M.msgid, "displayed") = {1}
                 /\ LevelOn(markers', M.msgid, bare_jid) = "displayed" ]_vars

\* C11 amended: the same for a one-to-one conversation that is not hidden;
\* for a hidden one, as in a room, nothing is sent and the store is left as
\* it was.
OwnMessageDeliveryWhenVisible ==
    [][ last'.op = "onMessageSent" =>
          IF chat.type = CHATROOMS_TYPE \/ last'.hidden
          THEN outbox' = <<>> /\ markers' = markers
          ELSE "displayed" \in last'.send_chat_markers =>
                 LET M == messages[last'.msg] IN
                 /\ Len(outbox') = 1
                 /\ MarkersSent(outbox', M.msgid, "displayed") = {1}
                 /\ LevelOn(markers', M.msgid, bare_jid) = "displayed" ]_vars

\* onMessageSent has marked a message that is not flagged markable.
UnmarkableOwnMessageMarked ==
    /\ Ran("onMessageSent")
    /\ chat.type = PRIVATE_CHAT_TYPE
    /\ ~last.hidden
    /\ ~messages[last.msg].is_markable
    /\ MarkersSent(outbox, messages[last.msg].msgid, "displayed") = {1}
    /\ LevelOn(markers, messages[last.msg].msgid, bare_jid) = "displayed"

\* The entry points that may send a marker.
OutboundOps ==
    {"sendMarkerForMessage", "sendMarkerForMUCMessage",
     "sendMarkerForLastMessage", "handleUnreadMessage", "onMessageUpdated",
     "onMessageSent", "onUnreadsCleared"}

\* The entry points that take the level to send as an argument; the others
\* send at the default level.
TypedOps ==
    {"sendMarkerForMessage", "sendMarkerForMUCMessage",
     "sendMarkerForLastMessage"}

\* The level a call is to send.
LevelToSend(call) ==
    IF call.op \in TypedOps THEN DefaultDisplayed(call.type) ELSE "displayed"

\* C12: whichever outbound entry point runs, when the level it is to send is
\* not in send_chat_markers, no stanza is sent and the store stays as it was,
\* with force set as well.
SendGating ==
    [][ (last'.op \in OutboundOps
         /\ LevelToSend(last') \notin last'.send_chat_markers)
        => (outbox' = <<>> /\ markers' = markers) ]_vars

\* A forced send of a level that is switched off, in a conversation that has
\* a message to mark, has sent nothing.
ForcedSendHeldBack ==
    /\ Ran("sendMarkerForLastMessage")
    /\ last.force
    /\ Len(messages) > 0
    /\ last.type = "displayed"
    /\ "displayed" \notin last.send_chat_markers
    /\ outbox = <<>>

\* The calls that hand a message to sendMarkerForMUCMessage.
CallsMUCSend(call) ==
    /\ chat.type = CHATROOMS_TYPE
    /\ \/ call.op = "sendMarkerForMUCMessage" /\ call.msg # 0
       \/ call.op = "onMessageUpdated" /\ ~call.hidden
       \/ /\ call.op = "onUnreadsCleared"
          /\ call.unreads # NoUnreads
          /\ Len(messages) > 0

\* The message such a call hands over.
MUCTarget(call) ==
    IF call.op = "onUnreadsCleared" THEN messages[Len(messages)]
    ELSE messages[call.msg]

\* The message is markable and carries no stable id of the room.
Unstamped(M) == M.is_markable /\ ~Truthy(StanzaId(M, chat.jid))

\* C13 as stated: when sendMarkerForMUCMessage is given a markable room
\* message without a stable id of the room, nothing is sent, the call
\* returns false, log.error is called and the calling handler leaves the
\* store as it was.
MissingStableId ==
    [][ (CallsMUCSend(last') /\ Unstamped(MUCTarget(last')))
        => /\ outbox' = <<>>
           /\ last'.op = "sendMarkerForMUCMessage" => last'.ret = "false"
           /\ last'.logged
           /\ markers' = markers ]_vars

\* C13 amended: nothing is sent and the store stays as it was in every such
\* call; the call returns false and log.error is called when the level is a
\* valid, enabled one and the store does not yet credit the local user on
\* the message.
MissingStableIdWhenSendIsDue ==
    [][ (CallsMUCSend(last') /\ Unstamped(MUCTarget(last')))
        => /\ outbox' = <<>>
           /\ markers' = markers
           /\ (/\ LevelToSend(last') \in last'.send_chat_markers
               /\ LevelOn(markers, getMessageIdToMark(MUCTarget(last')),
                          bare_jid) = NoVal)
              => /\ last'.logged
                 /\ last'.op = "sendMarkerForMUCMessage"
                      => last'.ret = "false" ]_vars

\* onUnreadsCleared has found the room's last message unstamped: the
\* condition is logged and nothing is sent.
UnstampedReported ==
    /\ Ran("onUnreadsCleared")
    /\ CallsMUCSend(last)
    /\ Unstamped(MUCTarget(last))
    /\ last.logged
    /\ outbox = <<>>

\* The key of a message as the claim words it: for a groupchat message the
\* stable id given by the room when there is one, else the client id; for
\* any other message the client id.
ExpectedKey(M) ==
    IF M.type = "groupchat" /\ Truthy(StanzaId(M, MucJid))
    THEN StanzaId(M, MucJid)
    ELSE M.msgid

\* C14: getMessageIdToMark gives a groupchat message the room's stable id
\* when it has one and the client id otherwise, and a one-to-one message its
\* client id even when it carries a stable id; addChatMarker files its
\* record under that key, and sendMarkerForMUCMessage finds the local user's
\* level under that same key.
KeyDerivation ==
    /\ \A i \in 1..Len(messages) :
         getMessageIdToMark(messages[i]) = ExpectedKey(messages[i])
    /\ (Ran("addChatMarker") /\ last.ret = "marker")
         => LevelOn(markers, ExpectedKey(messages[last.msg]), last.by)
              = last.type
    /\ (/\ Ran("sendMarkerForMUCMessage")
        /\ last.msg # 0
        /\ last.type \in last.send_chat_markers)
         => LET M == messages[last.msg] IN
            /\ LevelOn(markers, ExpectedKey(M), bare_jid) # NoVal
                 => last.ret = "false"
            /\ (/\ LevelOn(markers, ExpectedKey(M), bare_jid) = NoVal
                /\ M.is_markable
                /\ Truthy(StanzaId(M, chat.jid)))
                 => last.ret = "true"

\* addChatMarker has filed a record under the client id of a one-to-one
\* message that carries a stable id.
DirectMessageKeyedByClientId ==
    /\ Ran("addChatMarker")
    /\ last.ret = "marker"
    /\ chat.type = PRIVATE_CHAT_TYPE
    /\ Truthy(StanzaId(messages[last.msg], chat.jid))
    /\ LevelOn(markers, messages[last.msg].msgid, last.by) = last.type

\* C15: every record of the store made for a message M has as its time M's
\* timestamp plus one unit, whatever the wall clock was when it was made.
TimeJustAfterMessage ==
    \A i \in 1..Len(markers), m \in 1..Len(messages) :
        markers[i].id = getMessageIdToMark(messages[m])
          => markers[i].time = messages[m].time + 1

\* The storage has answered the fetch that initChatMarkers started.
LoadCompleted == fetch.load \in {"success", "error"}

\* C16: after initChatMarkers, once the storage has answered the load, with
\* success or with an error, `fetched` is eventually resolved; resolve is
\* called at most once, and `fetched` is never resolved before the storage
\* has answered.
ReadinessSignal ==
    /\ [](fetch.resolves <= 1)
    /\ [](fetch.fetched = "resolved" => LoadCompleted)
    /\ (fetch.load = "success") ~> (fetch.fetched = "resolved")
    /\ (fetch.load = "error") ~> (fetch.fetched = "resolved")

\* The load has failed and `fetched` is resolved all the same, the store
\* empty.
ResolvedAfterFailedLoad ==
    /\ fetch.load = "error"
    /\ fetch.fetched = "resolved"
    /\ fetch.resolves = 1
    /\ markers = <<>>

\* The conditions under which handleUnreadMessage is to mark the message of
\* a call: there is a message with a body, it is new, the conversation is
\* not hidden, and the message is flagged markable.
UnreadToBeMarked(call) ==
    /\ call.msg # 0
    /\ Truthy(messages[call.msg].body)
    /\ messages[call.msg].is_new
    /\ ~call.hidden
    /\ messages[call.msg].is_markable

\* C17: handleUnreadMessage sends nothing and leaves the store as it was
\* unless the message has a body, is new, is flagged markable and the
\* conversation is not hidden; when all of these hold and 'displayed' is
\* enabled, it sends exactly one marker, a displayed one for that message.
NewUnreadPolicy ==
    [][ last'.op = "handleUnreadMessage" =>
          /\ ~UnreadToBeMarked(last')
               => (outbox' = <<>> /\ markers' = markers)
          /\ (UnreadToBeMarked(last')
              /\ "displayed" \in last'.send_chat_markers)
               => /\ Len(outbox') = 1
                  /\ MarkersSent(outbox', messages[last'.msg].msgid,
                                 "displayed") = {1} ]_vars

\* handleUnreadMessage has marked a new message of a visible conversation.
UnreadMarked ==
    /\ Ran("handleUnreadMessage")
    /\ UnreadToBeMarked(last)
    /\ Len(outbox) = 1
    /\ outbox[1].marker = "displayed"
    /\ LevelOn(markers, getMessageIdToMark(messages[last.msg]), bare_jid)
         = "displayed"

\* The messages sendMarkerForLastMessage may mark: all of them when forced,
\* the markable ones otherwise.
Qualifying(force) ==
    {i \in 1..Len(messages) : force \/ messages[i].is_markable}

\* The most recent message of a non-empty set of positions.
MostRecent(positions) == CHOOSE i \in positions : \A j \in positions : j <= i

\* C18: sendMarkerForLastMessage sends at most one marker; what it sends is
\* for the most recent markable message, or when forced for the most recent
\* message; it sends that marker whenever there is such a message and the
\* level is enabled; with no such message it sends nothing and leaves the
\* store as it was.
LastMessageTarget ==
    [][ last'.op = "sendMarkerForLastMessage" =>
          LET found == Qualifying(last'.force) IN
          /\ Len(outbox') <= 1
          /\ Len(outbox') = 1
               => /\ found # {}
                  /\ outbox'[1].id = messages[MostRecent(found)].msgid
                  /\ outbox'[1].marker = last'.type
          /\ (found # {} /\ last'.type \in last'.send_chat_markers)
               => Len(outbox') = 1
          /\ found = {} => (outbox' = <<>> /\ markers' = markers) ]_vars

\* Unforced, sendMarkerForLastMessage has passed over the unmarkable last
\* message and marked the one before it.
EarlierMarkableMarked ==
    /\ Ran("sendMarkerForLastMessage")
    /\ ~last.force
    /\ Len(messages) = 2
    /\ ~messages[2].is_markable
    /\ Len(outbox) = 1
    /\ outbox[1].id = messages[1].msgid

\* The event handlers that send a marker and record it.
HandlerOps ==
    {"sendMarkerForLastMessage", "handleUnreadMessage", "onMessageUpdated",
     "onMessageSent", "onUnreadsCleared"}

\* The messages a marker stanza is for: it carries the client id of the
\* message or, in a room, its stable id.
SentFor(stanza) ==
    {m \in 1..Len(messages) :
        \/ messages[m].msgid = stanza.id
        \/ StanzaId(messages[m], chat.jid) = stanza.id}

\* C19: when a handler has sent a marker at some level for a message, the
\* store afterwards holds that same level for the local user on the
\* message, whichever of received, displayed and acknowledged it is.
RecordedLevelIsSentLevel ==
    last.op \in HandlerOps
      => \A i \in 1..Len(outbox) : \A m \in SentFor(outbox[i]) :
           LevelOn(markers, getMessageIdToMark(messages[m]), bare_jid)
             = outbox[i].marker

\* C20: in every handler a marker is sent exactly when the store is updated
\* to credit the local user on the marked message: after a send the store
\* credits the local user on that message, and without a send the store is
\* as it was; in rooms above the occupant ceiling as well.
SendAndStorePaired ==
    [][ last'.op \in HandlerOps =>
          /\ \A i \in 1..Len(outbox') : \A m \in SentFor(outbox'[i]) :
               LevelOn(markers', getMessageIdToMark(messages[m]), bare_jid)
                 \in Levels
          /\ outbox' = <<>> => markers' = markers ]_vars

\* A handler has sent a marker in a room above the occupant ceiling and the
\* store credits the local user on the message.
PairedAboveCeiling ==
    /\ last.op \in HandlerOps
    /\ chat.type = CHATROOMS_TYPE
    /\ last.occupants > muc_chat_markers_limit
    /\ Len(outbox) = 1
    /\ \A m \in SentFor(outbox[1]) :
         LevelOn(markers, getMessageIdToMark(messages[m]), bare_jid) \in Levels
====
